---- MODULE Spec2Model ----
(***************************************************************************)
(* Model of SharedMemoryStore (src/src/memory-store.ts, second class in    *)
(* the file, lines 394-968): session registry with TTL, work-unit graph,   *)
(* output broker with promise-based waiters and timers, context blobs.     *)
(* Each handler of the store is one atomic action (single-threaded event   *)
(* loop); timers and the reaper are separate callbacks.                    *)
(***************************************************************************)
EXTENDS Integers, Sequences, FiniteSets, TLC

\* ---------------------------------------------------------------- bounds
MaxSessions == 2      \* sessions ever created
MaxUnits    == 3      \* work units held by one session
MaxCallers  == 2      \* awaitDependency calls that suspend
MaxTime     == 3      \* last clock value
MaxTimeout  == 1      \* largest timeoutMs argument
MaxTtl      == 1      \* largest ttl argument
MaxVersion  == 1      \* publishes per output key
MaxClaimUnits == 1    \* work units of the session whose claims are explored
MaxDiscoveries == 4   \* discoveries ever appended
maxDiscoveriesPerSession == 2   \* config: the cap of the store explored
maxWorkUnitsPerSession == 2     \* config: the cap of the front end explored
MaxPublishes == 2     \* publishes per output key where versions are counted
MaxClock == 601       \* last clock value where durations are measured, in ms
MaxLateTime == 4      \* last clock value where waits begin after a teardown

\* ------------------------------------------------------- program constants
defaultTTL == 86400000          \* config.ts: 24 * 60 * 60 * 1000
Epoch      == 1                 \* first value of Date.now() (positive)
UNDEF      == -1                \* an absent optional numeric field
NaN        == -2                \* undefined + 1

\* ------------------------------------------------------------- input sets
Workers       == {"coord", "w1", "w2"}
WorkerLists   == {<<"w1">>, <<"w1", "w2">>}
UnitIds       == {"u1", "u2"}
DepLists      == {<<>>, <<"u1">>, <<"u2">>, <<"u1", "u2">>}
UnitStatuses  == {"available", "claimed", "in_progress", "completed", "blocked"}
SessionStatuses == {"planning", "executing", "consolidating", "complete"}
Keys          == {<<"k1">>, <<"k2">>}
\* a name every plain object inherits from Object.prototype
InheritedKeys == {<<"toString">>}
Data          == {"null", "d1", "d2"}

Range(f) == {f[i] : i \in DOMAIN f}

\* generateId('session'): a fresh id, never reused
SessionId(n) == <<"s", n>>
\* an id no createSession ever returned
UnknownSid == SessionId(0)

VARIABLES
    now,                 \* Date.now()
    nextSid,             \* number of the next generated session id
    sessions,            \* Map sessionId -> AgenticSession
    workUnitIndex,       \* Map sessionId -> (unit_id -> position of the unit object in work_units)
    discoveries,         \* Map sessionId -> Discovery[]
    outputs,             \* Map sessionId -> Record<key, OutputPublication>
    dependencyWaiters,   \* Map sessionId -> DependencyWaitRequest[]
    dependencyResolvers, \* Map resolverKey -> resolve functions (caller numbers)
    contexts,            \* Map contextKey -> FullContext
    contextRefs,         \* Map ref_id -> ContextRef
    contextRefCount,     \* Map contextKey -> Set of sessionIds
    callers,             \* the promises returned by awaitDependency, with their timers
    ttlArg,              \* the ttl argument each session was created with
    nextDid,             \* number of the next generated discovery id
    polled,              \* a worker polling getContextDelta: its last version and what it received
    lastOp               \* the last handler that ran and what it returned

vars == <<now, nextSid, sessions, workUnitIndex, discoveries, outputs,
          dependencyWaiters, dependencyResolvers, contexts, contextRefs,
          contextRefCount, callers, ttlArg, nextDid, polled, lastOp>>

\* ids a client can present: every id generated so far, and an unknown one
KnownSids == {SessionId(n) : n \in 0..(nextSid - 1)}

Op(op, sid, arg, who, ok, ret) ==
    [op |-> op, sid |-> sid, arg |-> arg, who |-> who, ok |-> ok, ret |-> ret]

\* Remove the keys in S from the map m
Without(m, S) == [k \in (DOMAIN m) \ S |-> m[k]]
\* m.set(k, v)
MapSet(m, k, v) == [x \in (DOMAIN m) \cup {k} |-> IF x = k THEN v ELSE m[x]]
\* m.get(k) || dflt
GetOr(m, k, dflt) == IF k \in DOMAIN m THEN m[k] ELSE dflt

\* ------------------------------------------------------------ the store
\* The collections of the store as one value, for the helpers that several
\* handlers share.
Store == [sessions |-> sessions, workUnitIndex |-> workUnitIndex,
          discoveries |-> discoveries, outputs |-> outputs,
          dependencyWaiters |-> dependencyWaiters,
          dependencyResolvers |-> dependencyResolvers,
          contexts |-> contexts, contextRefs |-> contextRefs,
          contextRefCount |-> contextRefCount, callers |-> callers]

\* The handler's writes to the collections
Commit(st) ==
    /\ sessions' = st.sessions
    /\ workUnitIndex' = st.workUnitIndex
    /\ discoveries' = st.discoveries
    /\ outputs' = st.outputs
    /\ dependencyWaiters' = st.dependencyWaiters
    /\ dependencyResolvers' = st.dependencyResolvers
    /\ contexts' = st.contexts
    /\ contextRefs' = st.contextRefs
    /\ contextRefCount' = st.contextRefCount
    /\ callers' = st.callers

\* (mutant) the resolver key is the dependency key alone
KeyWithoutSession(sid, key) == key

\* `${sessionId}:${dependencyKey}`
ResolverKey(sid, key) == sid \o <<":">> \o key

\* (mutant) key === prefix
SameString(str, prefix) == str = prefix

\* key.startsWith(prefix)
StartsWith(str, prefix) ==
    /\ Len(str) >= Len(prefix)
    /\ SubSeq(str, 1, Len(prefix)) = prefix

\* (mutant) the session expires as soon as its ttl has passed, not after it
isExpiredAtDeadline(session, t) ==
    IF session.ttl = 0 THEN FALSE
    ELSE t - session.created_at >= session.ttl

\* !session.ttl is false for every ttl the session record can hold but 0
isExpired(session, t) ==
    IF session.ttl = 0 THEN FALSE
    ELSE t - session.created_at > session.ttl

\* ttl || this.config.defaultTTL : an absent ttl and ttl = 0 are both falsy
EffectiveTtl(given, ttl) ==
    IF (~given) \/ ttl = 0 THEN defaultTTL ELSE ttl

\* storeContext: a fresh context key and ref id, the blob stored under the
\* key and the session recorded as its only owner
storeContext(st, n, sid) ==
    LET contextKey == <<"context", n>>
        refId == <<"ref", n>>
        counted == IF contextKey \in DOMAIN st.contextRefCount
                   THEN st.contextRefCount
                   ELSE MapSet(st.contextRefCount, contextKey, {})
    IN [st EXCEPT
          !.contexts = MapSet(st.contexts, contextKey, "blob"),
          !.contextRefCount = MapSet(counted, contextKey, counted[contextKey] \cup {sid}),
          !.contextRefs = MapSet(st.contextRefs, refId,
                                 [ref_id |-> refId, full_context_key |-> contextKey])]

\* (mutant) the timer stays scheduled
TimerLeft(caller, how) == caller

\* A timer that has run, or that clearTimeout has cancelled, is no longer
\* scheduled
TimerGone(caller, how) == [caller EXCEPT !.timer = how, !.due = 0]

\* (mutant) only the session record is deleted
dropSessionOnly(st, sid) == [st EXCEPT !.sessions = Without(st.sessions, {sid})]

\* cleanupSession
cleanupSession(st, sid) ==
    IF sid \notin DOMAIN st.sessions THEN st
    ELSE
    LET session == st.sessions[sid]
        doomed == {rk \in DOMAIN st.dependencyResolvers : StartsWith(rk, sid \o <<":">>)}
        cleared == UNION {Range(st.dependencyResolvers[rk]) : rk \in doomed}
        contextKey == session.shared_context.full_context_key
        hasRefs == contextKey \in DOMAIN st.contextRefCount
        sessionRefs == IF hasRefs THEN st.contextRefCount[contextKey] \ {sid} ELSE {}
        last == hasRefs /\ sessionRefs = {}
    IN [st EXCEPT
          !.sessions = Without(st.sessions, {sid}),
          !.discoveries = Without(st.discoveries, {sid}),
          !.outputs = Without(st.outputs, {sid}),
          !.dependencyWaiters = Without(st.dependencyWaiters, {sid}),
          !.workUnitIndex = Without(st.workUnitIndex, {sid}),
          !.dependencyResolvers = Without(st.dependencyResolvers, doomed),
          \* clearTimeout of every resolver found; no resolve or reject is called
          !.callers = [c \in DOMAIN st.callers |->
                         IF c \in cleared
                         THEN TimerGone(st.callers[c], "cleared")
                         ELSE st.callers[c]],
          !.contextRefCount = IF ~hasRefs THEN st.contextRefCount
                              ELSE IF last THEN Without(st.contextRefCount, {contextKey})
                              ELSE MapSet(st.contextRefCount, contextKey, sessionRefs),
          !.contexts = IF last THEN Without(st.contexts, {contextKey}) ELSE st.contexts,
          !.contextRefs = IF last THEN Without(st.contextRefs, {session.shared_context.ref_id})
                          ELSE st.contextRefs]

\* getSessionStats().active and .total_contexts
StatsActive == Cardinality(DOMAIN sessions)
StatsTotalContexts == Cardinality(DOMAIN contexts)

\* The section names a client can ask for: one the switch names, a field of
\* the blob the default branch finds, and one the blob does not have
Sections == {"requirements", "task_description", "no_such_section"}

\* getFullContext: the blob behind a reference id, or null
getFullContext(refId) ==
    IF refId \notin DOMAIN contextRefs THEN "null"
    ELSE GetOr(contexts, contextRefs[refId].full_context_key, "null")

\* What expandContextSection returns
ExpandedSection(refId, section) ==
    IF getFullContext(refId) = "null" THEN "null"
    ELSE IF section = "no_such_section" THEN "null"
    ELSE "data"

\* --------------------------------------------------------------- actions
Init ==
    /\ now = Epoch
    /\ nextSid = 1
    /\ sessions = <<>>
    /\ workUnitIndex = <<>>
    /\ discoveries = <<>>
    /\ outputs = <<>>
    /\ dependencyWaiters = <<>>
    /\ dependencyResolvers = <<>>
    /\ contexts = <<>>
    /\ contextRefs = <<>>
    /\ contextRefCount = <<>>
    /\ callers = <<>>
    /\ ttlArg = <<>>
    /\ nextDid = 1
    /\ polled = [since |-> 0, got |-> <<>>]
    /\ lastOp = Op("init", UnknownSid, "", "", TRUE, "")

\* Date.now() between two requests, in milliseconds: less and more than half
\* a second apart
Elapse(ms) ==
    /\ now + ms <= MaxClock
    /\ now' = now + ms
    /\ UNCHANGED <<nextSid, sessions, workUnitIndex, discoveries, outputs,
                   dependencyWaiters, dependencyResolvers, contexts, contextRefs,
                   contextRefCount, callers, ttlArg, nextDid, polled, lastOp>>

\* Time passes
Tick ==
    /\ now < MaxTime
    /\ now' = now + 1
    /\ UNCHANGED <<nextSid, sessions, workUnitIndex, discoveries, outputs,
                   dependencyWaiters, dependencyResolvers, contexts, contextRefs,
                   contextRefCount, callers, ttlArg, nextDid, polled, lastOp>>

createSession(coordinatorId, workerIds, given, ttl) ==
    /\ LET sid == SessionId(nextSid)
           st1 == storeContext(Store, nextSid, sid)
           session == [coordinator_id |-> coordinatorId,
                       worker_ids |-> workerIds,
                       shared_context |-> [ref_id |-> <<"ref", nextSid>>,
                                           full_context_key |-> <<"context", nextSid>>],
                       work_units |-> <<>>,
                       status |-> "planning",
                       created_at |-> now,
                       updated_at |-> now,
                       ttl |-> EffectiveTtl(given, ttl)]
       IN /\ Commit([st1 EXCEPT
                       !.sessions = MapSet(st1.sessions, sid, session),
                       !.discoveries = MapSet(st1.discoveries, sid, <<>>),
                       !.outputs = MapSet(st1.outputs, sid, <<>>),
                       !.dependencyWaiters = MapSet(st1.dependencyWaiters, sid, <<>>),
                       !.workUnitIndex = MapSet(st1.workUnitIndex, sid, <<>>)])
          /\ ttlArg' = MapSet(ttlArg, sid, IF given THEN ttl ELSE UNDEF)
          /\ lastOp' = Op("createSession", sid, "", coordinatorId, TRUE, "")
    /\ nextSid' = nextSid + 1
    /\ UNCHANGED <<now, nextDid, polled>>

getSession(sid) ==
    /\ IF sid \notin DOMAIN sessions
       THEN /\ lastOp' = Op("getSession", sid, "", "", FALSE, "null")
            /\ Commit(Store)
       ELSE IF isExpired(sessions[sid], now)
       THEN /\ Commit(cleanupSession(Store, sid))
            /\ lastOp' = Op("getSession", sid, "expired", "", FALSE, "null")
       ELSE /\ lastOp' = Op("getSession", sid, "", "", TRUE, "session")
            /\ Commit(Store)
    /\ UNCHANGED <<now, nextSid, ttlArg, nextDid, polled>>

updateSessionStatus(sid, status) ==
    /\ IF sid \notin DOMAIN sessions
       THEN /\ lastOp' = Op("updateSessionStatus", sid, status, "", FALSE, "")
            /\ UNCHANGED sessions
       ELSE /\ sessions' = [sessions EXCEPT ![sid].status = status,
                                            ![sid].updated_at = now]
            /\ lastOp' = Op("updateSessionStatus", sid, status, "", TRUE, "")
    /\ UNCHANGED <<now, nextSid, workUnitIndex, discoveries, outputs,
                   dependencyWaiters, dependencyResolvers, contexts, contextRefs,
                   contextRefCount, callers, ttlArg, nextDid, polled>>

expandContextSection(refId, section) ==
    /\ lastOp' = Op("expandContextSection", UnknownSid, section, refId, TRUE,
                    ExpandedSection(refId, section))
    /\ UNCHANGED <<now, nextSid, sessions, workUnitIndex, discoveries, outputs,
                   dependencyWaiters, dependencyResolvers, contexts, contextRefs,
                   contextRefCount, callers, ttlArg, nextDid, polled>>

\* The sessions the sweep finds expired, in the order Map.entries() lists
\* them (insertion order = creation order)
RECURSIVE ExpiredFrom(_)
ExpiredFrom(n) ==
    IF n >= nextSid THEN <<>>
    ELSE IF SessionId(n) \in DOMAIN sessions /\ isExpired(sessions[SessionId(n)], now)
         THEN <<SessionId(n)>> \o ExpiredFrom(n + 1)
         ELSE ExpiredFrom(n + 1)

\* (mutant) the sweep collects the expired sessions and cleans none
CleanupNone(st, sids) == st

RECURSIVE CleanupEach(_, _)
CleanupEach(st, sids) ==
    IF sids = <<>> THEN st
    ELSE CleanupEach(cleanupSession(st, Head(sids)), Tail(sids))

\* One firing of the interval timer set by startCleanupTimer
cleanupTimerFire ==
    /\ Commit(CleanupEach(Store, ExpiredFrom(1)))
    /\ lastOp' = Op("reaper", UnknownSid, ExpiredFrom(1), "", TRUE, "")
    /\ UNCHANGED <<now, nextSid, ttlArg, nextDid, polled>>

\* ------------------------------------------------------- work-unit graph
\* A unit as server.publishWorkUnits builds it from the request
NewUnit(u, t) ==
    [unit_id |-> u.unit_id, status |-> "available", claimed_by |-> "none",
     dependencies |-> u.dependencies, has_result |-> FALSE,
     started_at |-> UNDEF, estimated_duration |-> UNDEF,
     actual_duration |-> UNDEF, created_at |-> t, updated_at |-> t]

UnitSpecs == [unit_id : UnitIds, dependencies : DepLists]

\* Request batches: validateWorkUnits rejects a batch that repeats an id
Batches ==
    {<<>>} \cup {<<a>> : a \in UnitSpecs}
           \cup {x \in UnitSpecs \X UnitSpecs : x[1].unit_id # x[2].unit_id}

\* graph.set(unit.unit_id, unit.dependencies || []) for each unit in order:
\* a later unit with the same id replaces the entry of an earlier one
RECURSIVE BuildGraph(_, _, _)
BuildGraph(units, i, graph) ==
    IF i > Len(units) THEN graph
    ELSE BuildGraph(units, i + 1, MapSet(graph, units[i].unit_id, units[i].dependencies))

\* hasCycle(unitId) with the shared visited and recursionStack sets; the
\* result carries the sets as the call leaves them
RECURSIVE hasCycle(_, _, _, _), hasCycleDeps(_, _, _, _, _)
hasCycle(graph, unitId, visited, recursionStack) ==
    LET r == hasCycleDeps(graph, GetOr(graph, unitId, <<>>), 1,
                          visited \cup {unitId}, recursionStack \cup {unitId})
    IN IF r.cyc THEN r
       ELSE [cyc |-> FALSE, visited |-> r.visited,
             recursionStack |-> r.recursionStack \ {unitId}]

hasCycleDeps(graph, deps, i, visited, recursionStack) ==
    IF i > Len(deps)
    THEN [cyc |-> FALSE, visited |-> visited, recursionStack |-> recursionStack]
    ELSE IF deps[i] \notin visited
    THEN LET r == hasCycle(graph, deps[i], visited, recursionStack)
         IN IF r.cyc THEN r
            ELSE hasCycleDeps(graph, deps, i + 1, r.visited, r.recursionStack)
    ELSE IF deps[i] \in recursionStack
    THEN [cyc |-> TRUE, visited |-> visited, recursionStack |-> recursionStack]
    ELSE hasCycleDeps(graph, deps, i + 1, visited, recursionStack)

RECURSIVE CheckEach(_, _, _, _, _)
CheckEach(graph, units, i, visited, recursionStack) ==
    IF i > Len(units) THEN FALSE
    ELSE IF units[i].unit_id \notin visited
    THEN LET r == hasCycle(graph, units[i].unit_id, visited, recursionStack)
         IN IF r.cyc THEN TRUE
            ELSE CheckEach(graph, units, i + 1, r.visited, r.recursionStack)
    ELSE CheckEach(graph, units, i + 1, visited, recursionStack)

hasCircularDependencies(units) ==
    CheckEach(BuildGraph(units, 1, <<>>), units, 1, {}, {})

\* sessionUnits.set(unit.unit_id, unit) for each unit pushed: the index
\* refers to the unit object at the position the push gave it
RECURSIVE IndexEach(_, _, _, _)
IndexEach(index, units, i, base) ==
    IF i > Len(units) THEN index
    ELSE IndexEach(MapSet(index, units[i].unit_id, base + i), units, i + 1, base)

publishWorkUnits(sid, batch) ==
    /\ IF sid \notin DOMAIN sessions \/ sid \notin DOMAIN workUnitIndex
       THEN /\ lastOp' = Op("publishWorkUnits", sid, "", "", FALSE, "false")
            /\ UNCHANGED <<sessions, workUnitIndex>>
       ELSE LET session == sessions[sid]
                units == [i \in 1..Len(batch) |-> NewUnit(batch[i], now)]
                allUnits == session.work_units \o units
            IN IF hasCircularDependencies(allUnits)
                  THEN /\ lastOp' = Op("publishWorkUnits", sid, "", "", FALSE, "error")
                       /\ UNCHANGED <<sessions, workUnitIndex>>
                  ELSE /\ sessions' = [sessions EXCEPT ![sid].work_units = allUnits,
                                                       ![sid].updated_at = now]
                       /\ workUnitIndex' = [workUnitIndex EXCEPT ![sid] =
                              IndexEach(workUnitIndex[sid], units, 1, Len(session.work_units))]
                       /\ lastOp' = Op("publishWorkUnits", sid, "", "", TRUE, "true")
    /\ UNCHANGED <<now, nextSid, discoveries, outputs, dependencyWaiters,
                   dependencyResolvers, contexts, contextRefs, contextRefCount,
                   callers, ttlArg, nextDid, polled>>

\* The unit object sessionUnits.get(unitId) returns, as its position in the
\* session's work_units; 0 when there is none
IndexedUnit(sid, unitId) ==
    IF sid \in DOMAIN sessions /\ sid \in DOMAIN workUnitIndex
       /\ unitId \in DOMAIN workUnitIndex[sid]
    THEN workUnitIndex[sid][unitId]
    ELSE 0

\* (mutant) the claim does not look at the unit's status
ClaimableAnyStatus(sid, unitId) ==
    IndexedUnit(sid, unitId) # 0

\* claimWorkUnit's test: the unit is there and available
Claimable(sid, unitId) ==
    /\ IndexedUnit(sid, unitId) # 0
    /\ sessions[sid].work_units[IndexedUnit(sid, unitId)].status = "available"

claimWorkUnit(sid, unitId, workerId, estimatedDuration) ==
    /\ IF ~Claimable(sid, unitId)
       THEN /\ lastOp' = Op("claimWorkUnit", sid, unitId, workerId, FALSE, "false")
            /\ UNCHANGED sessions
       ELSE LET p == IndexedUnit(sid, unitId)
            IN /\ sessions' = [sessions EXCEPT
                      ![sid].work_units[p].status = "claimed",
                      ![sid].work_units[p].claimed_by = workerId,
                      ![sid].work_units[p].estimated_duration = estimatedDuration,
                      ![sid].work_units[p].updated_at = now,
                      ![sid].updated_at = now]
               /\ lastOp' = Op("claimWorkUnit", sid, unitId, workerId, TRUE, "true")
    /\ UNCHANGED <<now, nextSid, workUnitIndex, discoveries, outputs,
                   dependencyWaiters, dependencyResolvers, contexts, contextRefs,
                   contextRefCount, callers, ttlArg, nextDid, polled>>

\* Math.round(ms / 1000) for ms >= 0
RoundSeconds(ms) == (ms + 500) \div 1000

\* (mutant) a completed unit keeps its status
StatusKeptOnceCompleted(unit, status) ==
    IF unit.status = "completed" THEN unit.status ELSE status

\* unit.status = status: no test of the current status
NewStatus(unit, status) == status

\* (mutant) every transition to in_progress records the start time anew
StartedAtEachTime(unit, status, t) ==
    IF status = "in_progress" THEN t ELSE unit.started_at

\* if (status === 'in_progress' && !unit.started_at) unit.started_at = Date.now()
StartedAt(unit, status, t) ==
    IF status = "in_progress" /\ unit.started_at \in {UNDEF, 0}
    THEN t ELSE unit.started_at

updateWorkStatus(sid, unitId, status, withResult) ==
    /\ IF IndexedUnit(sid, unitId) = 0
       THEN /\ lastOp' = Op("updateWorkStatus", sid, unitId, status, FALSE, "false")
            /\ UNCHANGED sessions
       ELSE LET p == IndexedUnit(sid, unitId)
                unit == sessions[sid].work_units[p]
                started == StartedAt(unit, status, now)
                duration == IF status = "completed" /\ started \notin {UNDEF, 0}
                            THEN RoundSeconds(now - started)
                            ELSE unit.actual_duration
            IN /\ sessions' = [sessions EXCEPT
                      ![sid].work_units[p].status = NewStatus(unit, status),
                      ![sid].work_units[p].updated_at = now,
                      ![sid].work_units[p].started_at = started,
                      ![sid].work_units[p].has_result = (withResult \/ unit.has_result),
                      ![sid].work_units[p].actual_duration = duration,
                      ![sid].updated_at = now]
               /\ lastOp' = Op("updateWorkStatus", sid, unitId, status, TRUE, "true")
    /\ UNCHANGED <<now, nextSid, workUnitIndex, discoveries, outputs,
                   dependencyWaiters, dependencyResolvers, contexts, contextRefs,
                   contextRefCount, callers, ttlArg, nextDid, polled>>

\* ------------------------------------------------------ dependency broker
\* for (const key of outputKeys) if (!outputs[key]) outputs[key] = placeholder
RECURSIVE DeclareEach(_, _, _, _)
DeclareEach(outs, keys, i, workerId) ==
    IF i > Len(keys) THEN outs
    ELSE DeclareEach(IF keys[i] \in DOMAIN outs \/ keys[i] \in InheritedKeys THEN outs
                     ELSE MapSet(outs, keys[i],
                                 [data |-> "null", producer_worker |-> workerId,
                                  timestamp |-> 0, version |-> 0]),
                     keys, i + 1, workerId)

\* session.worker_ids.includes(workerId)
IsListedWorker(session, workerId) == workerId \in Range(session.worker_ids)

declareOutputs(sid, workerId, outputKeys) ==
    /\ IF sid \notin DOMAIN sessions \/ ~IsListedWorker(sessions[sid], workerId)
       THEN /\ lastOp' = Op("declareOutputs", sid, outputKeys, workerId, FALSE, "false")
            /\ UNCHANGED outputs
       ELSE /\ outputs' = MapSet(outputs, sid,
                                 DeclareEach(GetOr(outputs, sid, <<>>), outputKeys, 1, workerId))
            /\ lastOp' = Op("declareOutputs", sid, outputKeys, workerId, TRUE, "true")
    /\ UNCHANGED <<now, nextSid, sessions, workUnitIndex, discoveries,
                   dependencyWaiters, dependencyResolvers, contexts, contextRefs,
                   contextRefCount, callers, ttlArg, nextDid, polled>>

\* The session's record of outputs has an entry of its own under the key
OwnOutput(sid, key) == sid \in DOMAIN outputs /\ key \in DOMAIN outputs[sid]

\* outputs[key] is truthy: an entry of the record (this.outputs.get(sid) || {}),
\* or a function the plain object inherits
HasOutput(sid, key) == OwnOutput(sid, key) \/ key \in InheritedKeys

\* outputs[key] where it is truthy; an inherited function has none of the
\* fields of an OutputPublication
OutputAt(sid, key) ==
    IF OwnOutput(sid, key) THEN outputs[sid][key]
    ELSE [data |-> "undefined", producer_worker |-> "undefined",
          timestamp |-> UNDEF, version |-> NaN]

\* output && output.data !== null
Available(sid, key) == HasOutput(sid, key) /\ OutputAt(sid, key).data # "null"

awaitDependency(sid, dependencyKey, timeoutMs) ==
    /\ IF Available(sid, dependencyKey)
       THEN /\ lastOp' = Op("awaitDependency", sid, dependencyKey, "", TRUE,
                            OutputAt(sid, dependencyKey).data)
            /\ UNCHANGED <<dependencyWaiters, dependencyResolvers, callers>>
       ELSE LET waitRequest == [dependency_key |-> dependencyKey,
                                timeout_ms |-> timeoutMs, created_at |-> now]
                resolverKey == ResolverKey(sid, dependencyKey)
                resolve == Len(callers) + 1
            IN /\ dependencyWaiters' = MapSet(dependencyWaiters, sid,
                      Append(GetOr(dependencyWaiters, sid, <<>>), waitRequest))
               /\ dependencyResolvers' = MapSet(dependencyResolvers, resolverKey,
                      Append(GetOr(dependencyResolvers, resolverKey, <<>>), resolve))
               /\ callers' = Append(callers,
                      [state |-> "pending", sid |-> sid, key |-> dependencyKey,
                       timer |-> "armed", due |-> now + timeoutMs, value |-> "none",
                       resolveCalls |-> 0, rejectCalls |-> 0,
                       live |-> sid \in DOMAIN sessions])
               /\ lastOp' = Op("awaitDependency", sid, dependencyKey, "", TRUE, "pending")
    /\ UNCHANGED <<now, nextSid, sessions, workUnitIndex, discoveries, outputs,
                   contexts, contextRefs, contextRefCount, ttlArg, nextDid, polled>>

\* resolve(data) of a promise: the first settlement wins
Resolved(caller, data) ==
    [caller EXCEPT !.state = IF caller.state = "pending" THEN "resolved" ELSE @,
                   !.value = IF caller.state = "pending" THEN data ELSE @,
                   !.resolveCalls = @ + 1]

\* (mutant) the timeout handler does not call reject
NotRejected(caller) == caller

\* reject(new Error('Timeout waiting for dependency'))
Rejected(caller) ==
    [caller EXCEPT !.state = IF caller.state = "pending" THEN "rejected" ELSE @,
                   !.value = IF caller.state = "pending" THEN "timeout" ELSE @,
                   !.rejectCalls = @ + 1]

\* (mutant) only the first registered resolver is woken
WokenFirstOnly(sid, outputKey) ==
    LET resolvers == GetOr(dependencyResolvers, ResolverKey(sid, outputKey), <<>>)
    IN IF resolvers = <<>> THEN {} ELSE {Head(resolvers)}

\* The callers publishOutput wakes: the resolvers registered under the key
Woken(sid, outputKey) ==
    Range(GetOr(dependencyResolvers, ResolverKey(sid, outputKey), <<>>))

publishOutput(sid, outputKey, data) ==
    /\ IF ~HasOutput(sid, outputKey)
       THEN /\ lastOp' = Op("publishOutput", sid, outputKey, "", FALSE, "false")
            /\ UNCHANGED <<outputs, dependencyResolvers, callers>>
       ELSE LET existing == OutputAt(sid, outputKey)
                resolverKey == ResolverKey(sid, outputKey)
                woken == Woken(sid, outputKey)
            IN /\ outputs' = MapSet(outputs, sid,
                      MapSet(GetOr(outputs, sid, <<>>), outputKey,
                             [existing EXCEPT
                                !.data = data, !.timestamp = now,
                                !.version = IF existing.version = NaN THEN NaN
                                            ELSE existing.version + 1]))
               /\ callers' = [c \in DOMAIN callers |->
                      IF c \in woken
                      THEN Resolved(TimerGone(callers[c], "cleared"), data)
                      ELSE callers[c]]
               /\ dependencyResolvers' =
                      IF woken # {} THEN Without(dependencyResolvers, {resolverKey})
                      ELSE dependencyResolvers
               /\ lastOp' = Op("publishOutput", sid, outputKey, "", TRUE, data)
    /\ UNCHANGED <<now, nextSid, sessions, workUnitIndex, discoveries,
                   dependencyWaiters, contexts, contextRefs, contextRefCount, ttlArg, nextDid, polled>>

\* currentResolvers.splice(currentResolvers.indexOf(resolve), 1)
RECURSIVE RemoveFirst(_, _)
RemoveFirst(seq, x) ==
    IF seq = <<>> THEN <<>>
    ELSE IF Head(seq) = x THEN Tail(seq)
    ELSE <<Head(seq)>> \o RemoveFirst(Tail(seq), x)

\* waitRequests.filter(req => req.dependency_key !== dependencyKey)
RECURSIVE OtherKeys(_, _)
OtherKeys(reqs, key) ==
    IF reqs = <<>> THEN <<>>
    ELSE IF Head(reqs).dependency_key # key
         THEN <<Head(reqs)>> \o OtherKeys(Tail(reqs), key)
         ELSE OtherKeys(Tail(reqs), key)

\* setTimeout runs its callback no earlier than timeoutMs after the call
Due(caller, t) == t >= caller.due

\* The callback awaitDependency passed to setTimeout, for caller c
timeoutFire(c) ==
    /\ c \in DOMAIN callers
    /\ callers[c].timer = "armed"
    /\ Due(callers[c], now)
    /\ LET sid == callers[c].sid
           key == callers[c].key
           resolverKey == ResolverKey(sid, key)
           currentResolvers == RemoveFirst(GetOr(dependencyResolvers, resolverKey, <<>>), c)
           updatedRequests == OtherKeys(GetOr(dependencyWaiters, sid, <<>>), key)
       IN /\ dependencyResolvers' =
                 IF c \notin Range(GetOr(dependencyResolvers, resolverKey, <<>>))
                 THEN dependencyResolvers
                 ELSE IF currentResolvers = <<>>
                 THEN Without(dependencyResolvers, {resolverKey})
                 ELSE MapSet(dependencyResolvers, resolverKey, currentResolvers)
          /\ dependencyWaiters' =
                 IF updatedRequests = <<>> THEN Without(dependencyWaiters, {sid})
                 ELSE MapSet(dependencyWaiters, sid, updatedRequests)
          /\ callers' = [callers EXCEPT ![c] = Rejected(TimerGone(@, "fired"))]
          /\ lastOp' = Op("timeout", sid, key, "", FALSE, "timeout")
    /\ UNCHANGED <<now, nextSid, sessions, workUnitIndex, discoveries, outputs,
                   contexts, contextRefs, contextRefCount, ttlArg, nextDid, polled>>

\* ------------------------------------------------------------ discoveries
Max(a, b) == IF a >= b THEN a ELSE b

\* seq.splice(0, n): the sequence without its first n elements
Drop(seq, n) == IF n >= Len(seq) THEN <<>> ELSE SubSeq(seq, n + 1, Len(seq))

\* Math.max(1, Math.floor(maxDiscoveriesPerSession * 0.1))
RemoveCount == Max(1, maxDiscoveriesPerSession \div 10)

\* (mutant) the log is never trimmed
NoEviction(log) == log

\* The log after the eviction that makes room for one more discovery
Evicted(log) ==
    IF Len(log) >= maxDiscoveriesPerSession THEN Drop(log, RemoveCount) ELSE log

appendDiscovery(sid, workerId) ==
    /\ LET sessionDiscoveries == Evicted(GetOr(discoveries, sid, <<>>))
           discoveryRecord == [discovery_id |-> nextDid,
                               worker_id |-> workerId,
                               timestamp |-> now,
                               version |-> Len(sessionDiscoveries) + 1]
       IN /\ discoveries' = MapSet(discoveries, sid,
                                   Append(sessionDiscoveries, discoveryRecord))
          /\ lastOp' = Op("appendDiscovery", sid, "", workerId, TRUE, nextDid)
    /\ sessions' = IF sid \in DOMAIN sessions
                   THEN [sessions EXCEPT ![sid].updated_at = now]
                   ELSE sessions
    /\ nextDid' = nextDid + 1
    /\ UNCHANGED <<now, nextSid, workUnitIndex, outputs, dependencyWaiters,
                   dependencyResolvers, contexts, contextRefs, contextRefCount,
                   callers, ttlArg, polled>>

\* (mutant) d => d.timestamp >= sinceTimestamp
AtOrAfter(d, sinceTimestamp) == d.timestamp >= sinceTimestamp

\* d => d.timestamp > sinceTimestamp
After(d, sinceTimestamp) == d.timestamp > sinceTimestamp

\* sessionDiscoveries.filter(d => d.timestamp > sinceTimestamp)
RECURSIVE FilterSince(_, _)
FilterSince(log, sinceTimestamp) ==
    IF log = <<>> THEN <<>>
    ELSE IF After(Head(log), sinceTimestamp)
         THEN <<Head(log)>> \o FilterSince(Tail(log), sinceTimestamp)
         ELSE FilterSince(Tail(log), sinceTimestamp)

\* What getDiscoveriesSince returns
DiscoveriesSince(sid, sinceTimestamp) ==
    FilterSince(GetOr(discoveries, sid, <<>>), sinceTimestamp)

getDiscoveriesSince(sid, sinceTimestamp) ==
    /\ lastOp' = Op("getDiscoveriesSince", sid, sinceTimestamp, "", TRUE,
                    DiscoveriesSince(sid, sinceTimestamp))
    /\ UNCHANGED <<now, nextSid, sessions, workUnitIndex, discoveries, outputs,
                   dependencyWaiters, dependencyResolvers, contexts, contextRefs,
                   contextRefCount, callers, ttlArg, nextDid, polled>>

\* discoveries.filter(d => d.version > sinceVersion)
RECURSIVE FilterVersion(_, _)
FilterVersion(log, sinceVersion) ==
    IF log = <<>> THEN <<>>
    ELSE IF Head(log).version > sinceVersion
         THEN <<Head(log)>> \o FilterVersion(Tail(log), sinceVersion)
         ELSE FilterVersion(Tail(log), sinceVersion)

\* What getContextDelta returns: null for a session the store does not hold
getContextDelta(sid, workerId, sinceVersion) ==
    IF sid \notin DOMAIN sessions THEN "null"
    ELSE LET log == GetOr(discoveries, sid, <<>>)
             outs == GetOr(outputs, sid, <<>>)
             units == sessions[sid].work_units
         IN [added_discoveries |-> FilterVersion(log, sinceVersion),
             updated_work_units |->
                 {units[i].unit_id : i \in {j \in DOMAIN units :
                                              units[j].updated_at > sinceVersion}},
             new_outputs |-> {k \in DOMAIN outs : outs[k].timestamp > sinceVersion},
             version |-> Max(Len(log), Len(units)),
             timestamp |-> now]

\* One round of a worker's polling loop: getContextDelta with the version its
\* previous call returned (0 the first time)
pollContextDelta(sid, workerId) ==
    /\ LET delta == getContextDelta(sid, workerId, polled.since)
       IN IF sid \notin DOMAIN sessions
          THEN /\ lastOp' = Op("getContextDelta", sid, polled.since, workerId, FALSE, "null")
               /\ UNCHANGED polled
          ELSE /\ lastOp' = Op("getContextDelta", sid, polled.since, workerId, TRUE,
                               delta.version)
               /\ polled' = [since |-> delta.version,
                             got |-> polled.got \o
                                     [i \in 1..Len(delta.added_discoveries) |->
                                         delta.added_discoveries[i].discovery_id]]
    /\ UNCHANGED <<now, nextSid, sessions, workUnitIndex, discoveries, outputs,
                   dependencyWaiters, dependencyResolvers, contexts, contextRefs,
                   contextRefCount, callers, ttlArg, nextDid>>

\* ------------------------------------------------------------------ system
\* The bounds of the model, as guards on the requests that are explored
RoomForSession == nextSid <= MaxSessions
RoomForUnits(sid, batch) ==
    sid \in DOMAIN sessions => Len(sessions[sid].work_units) + Len(batch) <= MaxUnits
RoomForCaller(sid, key, timeoutMs) ==
    Available(sid, key) \/ (Len(callers) < MaxCallers /\ now + timeoutMs <= MaxTime)
RoomForVersion(sid, key) ==
    HasOutput(sid, key) => OutputAt(sid, key).version < MaxVersion

\* Sessions with their TTL: creation with every kind of ttl argument, reads,
\* the reaper, the clock
NextSession ==
    \/ Tick
    \/ \E w \in WorkerLists, given \in BOOLEAN, ttl \in 0..MaxTtl :
          RoomForSession /\ createSession("coord", w, given, ttl)
    \/ \E sid \in KnownSids : getSession(sid)
    \/ cleanupTimerFire

SpecSession == Init /\ [][NextSession]_vars

\* setInterval keeps calling the sweep
FairSession == SpecSession /\ WF_vars(cleanupTimerFire)

\* The work-unit graph of one session: batches with dependencies, claims
NextGraph ==
    \/ nextSid <= 1 /\ createSession("coord", <<"w1", "w2">>, FALSE, 0)
    \/ \E sid \in KnownSids, batch \in Batches :
          RoomForUnits(sid, batch) /\ publishWorkUnits(sid, batch)
    \/ \E sid \in KnownSids, u \in UnitIds, w \in {"w1", "w2"} :
          claimWorkUnit(sid, u, w, 1)

SpecGraph == Init /\ [][NextGraph]_vars

\* Claims and status updates on the units of one session: every status, with
\* and without a result, two competing workers
PlainBatches == {<<[unit_id |-> u, dependencies |-> <<>>]>> : u \in UnitIds}

NextClaim ==
    \/ nextSid <= 1 /\ createSession("coord", <<"w1", "w2">>, FALSE, 0)
    \/ \E sid \in DOMAIN sessions, batch \in PlainBatches :
          /\ Len(sessions[sid].work_units) < MaxClaimUnits
          /\ publishWorkUnits(sid, batch)
    \/ \E sid \in KnownSids, u \in UnitIds, w \in {"w1", "w2"} :
          claimWorkUnit(sid, u, w, 1)
    \/ \E sid \in DOMAIN sessions, u \in UnitIds, status \in UnitStatuses, r \in BOOLEAN :
          updateWorkStatus(sid, u, status, r)

SpecClaim == Init /\ [][NextClaim]_vars

\* The output broker of one session that can expire: one declared key and
\* one that stays undeclared, waiters, publishes, timeouts, teardown
NextBroker ==
    \/ Tick
    \/ \E ttl \in 1..MaxTtl :
          nextSid <= 1 /\ createSession("coord", <<"w1">>, TRUE, ttl)
    \/ \E sid \in DOMAIN sessions : getSession(sid)
    \/ cleanupTimerFire
    \/ \E sid \in DOMAIN sessions : declareOutputs(sid, "w1", <<<<"k1">>>>)
    \/ \E sid \in KnownSids \ {UnknownSid}, key \in Keys, t \in 1..MaxTimeout :
          RoomForCaller(sid, key, t) /\ awaitDependency(sid, key, t)
    \/ \E sid \in DOMAIN sessions, key \in Keys, d \in Data :
          RoomForVersion(sid, key) /\ publishOutput(sid, key, d)
    \/ \E c \in 1..MaxCallers : timeoutFire(c)

SpecBroker == Init /\ [][NextBroker]_vars

\* The clock advances and a timer that is due runs its callback
FairBroker ==
    /\ SpecBroker
    /\ WF_vars(Tick)
    /\ \A c \in 1..MaxCallers : WF_vars(timeoutFire(c))

\* Context blobs: sessions that expire, reads of their sections before and
\* after the teardown
NextContext ==
    \/ Tick
    \/ \E ttl \in 1..MaxTtl :
          RoomForSession /\ createSession("coord", <<"w1">>, TRUE, ttl)
    \/ \E sid \in DOMAIN sessions : getSession(sid)
    \/ cleanupTimerFire
    \/ \E n \in 1..(nextSid - 1), section \in Sections :
          expandContextSection(<<"ref", n>>, section)

SpecContext == Init /\ [][NextContext]_vars

\* Everything a session owns, up to its teardown: a discovery, a work unit,
\* a declared output, callers suspended on a declared and on an undeclared
\* key
NextTeardown ==
    \/ Tick
    \/ \E ttl \in 1..MaxTtl :
          nextSid <= 1 /\ createSession("coord", <<"w1">>, TRUE, ttl)
    \/ \E sid \in DOMAIN sessions : getSession(sid)
    \/ cleanupTimerFire
    \/ \E sid \in DOMAIN sessions : declareOutputs(sid, "w1", <<<<"k1">>>>)
    \/ \E sid \in KnownSids \ {UnknownSid}, key \in Keys, t \in 1..MaxTimeout :
          RoomForCaller(sid, key, t) /\ awaitDependency(sid, key, t)
    \/ \E sid \in DOMAIN sessions :
          /\ Len(discoveries[sid]) < MaxClaimUnits
          /\ appendDiscovery(sid, "w1")
    \/ \E sid \in DOMAIN sessions, batch \in PlainBatches :
          /\ Len(sessions[sid].work_units) < MaxClaimUnits
          /\ publishWorkUnits(sid, batch)

SpecTeardown == Init /\ [][NextTeardown]_vars

\* The discovery log of one session that does not expire: appends up to and
\* past the cap, reads by timestamp, a worker polling deltas, work units
NextDiscovery ==
    \/ Tick
    \/ nextSid <= 1 /\ createSession("coord", <<"w1">>, FALSE, 0)
    \/ \E sid \in DOMAIN sessions :
          nextDid <= MaxDiscoveries /\ appendDiscovery(sid, "w1")
    \/ \E sid \in DOMAIN sessions, t \in 0..MaxTime :
          getDiscoveriesSince(sid, t)
    \/ \E sid \in KnownSids : pollContextDelta(sid, "w1")
    \/ \E sid \in DOMAIN sessions, batch \in PlainBatches :
          /\ Len(sessions[sid].work_units) < MaxClaimUnits
          /\ publishWorkUnits(sid, batch)

SpecDiscovery == Init /\ [][NextDiscovery]_vars

\* Publishes of keys nobody declared, to sessions that exist and to one that
\* does not: k1 is declared, k2 never is, toString is a name the outputs
\* record inherits
NextUndeclared ==
    \/ nextSid <= 1 /\ createSession("coord", <<"w1">>, FALSE, 0)
    \/ \E sid \in DOMAIN sessions : declareOutputs(sid, "w1", <<<<"k1">>>>)
    \/ \E sid \in KnownSids, key \in Keys \cup InheritedKeys, t \in 1..MaxTimeout :
          RoomForCaller(sid, key, t) /\ awaitDependency(sid, key, t)
    \/ \E sid \in KnownSids, key \in Keys \cup InheritedKeys, d \in Data :
          RoomForVersion(sid, key) /\ publishOutput(sid, key, d)

SpecUndeclared == Init /\ [][NextUndeclared]_vars

\* The key lists a declare request carries: one key or two, plain names and
\* a name the outputs record inherits
OutputKeyLists == {<<<<"k1">>>>, <<<<"toString">>>>, <<<<"k1">>, <<"k2">>>>}

RoomForPublish(sid, key) ==
    HasOutput(sid, key) => OutputAt(sid, key).version < MaxPublishes

\* Declarations and publishes on one session: every actor (the coordinator,
\* listed workers, a worker that is not listed when the list is short), plain
\* and inherited keys, repeated declarations, repeated publishes
NextDeclare ==
    \/ \E w \in WorkerLists : nextSid <= 1 /\ createSession("coord", w, FALSE, 0)
    \/ \E sid \in KnownSids, w \in Workers, keys \in OutputKeyLists :
          declareOutputs(sid, w, keys)
    \/ \E sid \in KnownSids, key \in Keys \cup InheritedKeys, d \in {"null", "d1"} :
          RoomForPublish(sid, key) /\ publishOutput(sid, key, d)

SpecDeclare == Init /\ [][NextDeclare]_vars

\* Waits on sessions that exist and on session ids the store does not know:
\* one short-lived session with a declared key, awaits, publishes, the clock
\* and the timers
NextMissing ==
    \/ Tick
    \/ \E ttl \in 1..MaxTtl :
          nextSid <= 1 /\ createSession("coord", <<"w1">>, TRUE, ttl)
    \/ \E sid \in DOMAIN sessions : getSession(sid)
    \/ \E sid \in DOMAIN sessions : declareOutputs(sid, "w1", <<<<"k1">>>>)
    \/ \E sid \in KnownSids, key \in Keys, t \in 1..MaxTimeout :
          RoomForCaller(sid, key, t) /\ awaitDependency(sid, key, t)
    \/ \E sid \in DOMAIN sessions, d \in Data \ {"null"} :
          RoomForVersion(sid, <<"k1">>) /\ publishOutput(sid, <<"k1">>, d)
    \/ \E c \in 1..MaxCallers : timeoutFire(c)

SpecMissing == Init /\ [][NextMissing]_vars

\* The status of one unit over time: every target status from every current
\* status, with and without a result, a claim, requests for units and
\* sessions that do not exist, requests 400 ms and 600 ms apart
NextStatus ==
    \/ \E ms \in {400, 600} : Elapse(ms)
    \/ nextSid <= 1 /\ createSession("coord", <<"w1">>, FALSE, 0)
    \/ \E sid \in DOMAIN sessions :
          /\ Len(sessions[sid].work_units) < MaxClaimUnits
          /\ publishWorkUnits(sid, <<[unit_id |-> "u1", dependencies |-> <<>>]>>)
    \/ \E sid \in DOMAIN sessions : claimWorkUnit(sid, "u1", "w1", 1)
    \/ \E sid \in KnownSids, u \in UnitIds, status \in UnitStatuses, r \in BOOLEAN :
          updateWorkStatus(sid, u, status, r)

SpecStatus == Init /\ [][NextStatus]_vars

\* ------------------------------------------------------ server front end
\* The work_units arrays a publish_work_units request carries: none to three
\* units, ids repeated or not
RequestBatches ==
    LET PlainSpecs == {[unit_id |-> u, dependencies |-> <<>>] : u \in UnitIds}
    IN {<<>>} \cup {<<a>> : a \in PlainSpecs}
              \cup (PlainSpecs \X PlainSpecs)
              \cup (PlainSpecs \X PlainSpecs \X PlainSpecs)

\* validateWorkUnits: the length of the array against the cap of the
\* configuration, then the ids of the array against each other
validateWorkUnits(workUnits) ==
    IF maxWorkUnitsPerSession # 0 /\ Len(workUnits) > maxWorkUnitsPerSession
    THEN "Cannot exceed work units per session"
    ELSE IF \E i, j \in 1..Len(workUnits) :
               i < j /\ workUnits[i].unit_id = workUnits[j].unit_id
    THEN "Duplicate work unit ID"
    ELSE "ok"

\* server.publishWorkUnits: validation, then the store
publish_work_units(sid, workUnits) ==
    IF validateWorkUnits(workUnits) # "ok"
    THEN /\ lastOp' = Op("publish_work_units", sid, workUnits, "", FALSE,
                         validateWorkUnits(workUnits))
         /\ UNCHANGED <<now, nextSid, sessions, workUnitIndex, discoveries, outputs,
                        dependencyWaiters, dependencyResolvers, contexts, contextRefs,
                        contextRefCount, callers, ttlArg, nextDid, polled>>
    ELSE publishWorkUnits(sid, workUnits)

\* Publishes through the front end to one session over time: arrays within
\* and beyond the cap, one after another
NextCap ==
    \/ Tick
    \/ nextSid <= 1 /\ createSession("coord", <<"w1">>, FALSE, 0)
    \/ \E sid \in KnownSids, workUnits \in RequestBatches :
          RoomForUnits(sid, workUnits) /\ publish_work_units(sid, workUnits)

SpecCap == Init /\ [][NextCap]_vars

\* (mutant) every worker id passes
AnyWorkerInSession(session, workerId) == TRUE

\* validateWorkerInSession: a listed worker or the coordinator
validateWorkerInSession(session, workerId) ==
    workerId \in Range(session.worker_ids) \/ workerId = session.coordinator_id

\* The part claim_work_unit and add_discovery share: getSession, which tears
\* an expired session down, then the membership test. The request goes on to
\* the store only when the result is "ok".
Admission(sid, workerId) ==
    IF sid \notin DOMAIN sessions THEN "Session not found"
    ELSE IF isExpired(sessions[sid], now) THEN "Session expired"
    ELSE IF ~validateWorkerInSession(sessions[sid], workerId) THEN "Worker is not part of session"
    ELSE "ok"

\* What a request that is not admitted does: the teardown of getSession if
\* the session is expired, and the error
Refused(tool, sid, arg, workerId) ==
    /\ lastOp' = Op(tool, sid, arg, workerId, FALSE, Admission(sid, workerId))
    /\ IF Admission(sid, workerId) = "Session expired"
       THEN Commit(cleanupSession(Store, sid))
       ELSE Commit(Store)
    /\ UNCHANGED <<now, nextSid, ttlArg, nextDid, polled>>

\* server.claimWorkUnit
claim_work_unit(sid, unitId, workerId, estimatedMinutes) ==
    IF Admission(sid, workerId) # "ok"
    THEN Refused("claim_work_unit", sid, unitId, workerId)
    ELSE claimWorkUnit(sid, unitId, workerId, estimatedMinutes * 60 * 1000)

\* server.addDiscovery
add_discovery(sid, workerId) ==
    IF Admission(sid, workerId) # "ok"
    THEN Refused("add_discovery", sid, "", workerId)
    ELSE appendDiscovery(sid, workerId)

\* Claims and discoveries through the front end on one session that can
\* expire: the coordinator, a listed worker and a worker that is not listed
NextMember ==
    \/ Tick
    \/ \E ttl \in 1..MaxTtl :
          nextSid <= 1 /\ createSession("coord", <<"w1">>, TRUE, ttl)
    \/ \E sid \in DOMAIN sessions, batch \in PlainBatches :
          /\ Len(sessions[sid].work_units) < MaxClaimUnits
          /\ publishWorkUnits(sid, batch)
    \/ \E sid \in KnownSids, u \in UnitIds, w \in Workers :
          claim_work_unit(sid, u, w, 1)
    \/ \E sid \in KnownSids, w \in Workers :
          nextDid <= MaxClaimUnits + 1 /\ add_discovery(sid, w)

SpecMember == Init /\ [][NextMember]_vars

\* The room left for one more suspended caller whose deadline lies within
\* the time explored
RoomForLateCaller(sid, key, timeoutMs) ==
    Available(sid, key) \/ (Len(callers) < MaxCallers /\ now + timeoutMs <= MaxLateTime)

\* Waits that begin before and after the teardown of their session: one
\* short-lived session, its expiry, awaits on its id at every time, publishes
\* and timers
NextLate ==
    \/ now < MaxLateTime /\ Elapse(1)
    \/ nextSid <= 1 /\ createSession("coord", <<"w1">>, TRUE, 1)
    \/ \E sid \in KnownSids \ {UnknownSid} : getSession(sid)
    \/ \E sid \in DOMAIN sessions : declareOutputs(sid, "w1", <<<<"k1">>>>)
    \/ \E sid \in KnownSids \ {UnknownSid} :
          RoomForLateCaller(sid, <<"k1">>, 1) /\ awaitDependency(sid, <<"k1">>, 1)
    \/ \E sid \in DOMAIN sessions :
          RoomForVersion(sid, <<"k1">>) /\ publishOutput(sid, <<"k1">>, "d1")
    \/ \E c \in 1..MaxCallers : timeoutFire(c)

SpecLate == Init /\ [][NextLate]_vars

\* (mutant) a handler that waits for the output inside the call keeps the
\* thread until its caller is settled
HoldsThreadWhilePending(caller) == caller.state = "pending"

\* awaitDependency returns a Promise and server.awaitDependency awaits it:
\* the handler gives the thread back to the event loop while the caller is
\* suspended
HoldsThread(caller) == FALSE

\* The event loop starts a handler or a callback only when no handler holds
\* the thread
ThreadFree == \A c \in DOMAIN callers : ~HoldsThread(callers[c])

\* Two sessions served by the one event loop: waits on both, and every other
\* kind of request and the sweep while callers are suspended
NextAsync ==
    \/ ThreadFree /\ nextSid <= MaxSessions /\ createSession("coord", <<"w1">>, FALSE, 0)
    \/ ThreadFree /\ \E sid \in DOMAIN sessions : declareOutputs(sid, "w1", <<<<"k1">>>>)
    \/ ThreadFree /\ \E sid \in DOMAIN sessions :
          RoomForCaller(sid, <<"k1">>, 1) /\ awaitDependency(sid, <<"k1">>, 1)
    \/ ThreadFree /\ \E sid \in DOMAIN sessions :
          RoomForVersion(sid, <<"k1">>) /\ publishOutput(sid, <<"k1">>, "d1")
    \/ ThreadFree /\ \E sid \in DOMAIN sessions :
          /\ Len(sessions[sid].work_units) < MaxClaimUnits
          /\ publishWorkUnits(sid, <<[unit_id |-> "u1", dependencies |-> <<>>]>>)
    \/ ThreadFree /\ \E sid \in DOMAIN sessions : claimWorkUnit(sid, "u1", "w1", 1)
    \/ ThreadFree /\ \E sid \in DOMAIN sessions :
          Len(discoveries[sid]) < MaxClaimUnits /\ appendDiscovery(sid, "w1")
    \/ ThreadFree /\ cleanupTimerFire

SpecAsync == Init /\ [][NextAsync]_vars

\* Two short-lived sessions side by side, the same unit id and the same
\* output key in both: publishes of units, claims, discoveries, declarations,
\* waits, publishes of the output, and the teardown of one by a read
NextIsolation ==
    \/ Tick
    \/ nextSid <= MaxSessions /\ now = Epoch /\ createSession("coord", <<"w1">>, TRUE, 1)
    \/ \E sid \in DOMAIN sessions : getSession(sid)
    \/ \E sid \in DOMAIN sessions :
          /\ Len(sessions[sid].work_units) < MaxClaimUnits
          /\ now = Epoch
          /\ publishWorkUnits(sid, <<[unit_id |-> "u1", dependencies |-> <<>>]>>)
    \/ \E sid \in DOMAIN sessions : now = Epoch /\ claimWorkUnit(sid, "u1", "w1", 1)
    \/ \E sid \in DOMAIN sessions :
          /\ Len(discoveries[sid]) < MaxClaimUnits
          /\ now = Epoch
          /\ appendDiscovery(sid, "w1")
    \/ \E sid \in DOMAIN sessions :
          now = Epoch /\ declareOutputs(sid, "w1", <<<<"k1">>>>)
    \/ \E sid \in DOMAIN sessions :
          /\ \A c \in DOMAIN callers : callers[c].sid # sid
          /\ RoomForCaller(sid, <<"k1">>, 1)
          /\ awaitDependency(sid, <<"k1">>, 1)
    \/ \E sid \in DOMAIN sessions :
          RoomForVersion(sid, <<"k1">>) /\ publishOutput(sid, <<"k1">>, "d1")

SpecIsolation == Init /\ [][NextIsolation]_vars

\* ------------------------------------------------------------------ claims
\* The unit a claim or status update of (sid, u) acts on
HasUnit(sid, u) ==
    sid \in DOMAIN sessions /\ sid \in DOMAIN workUnitIndex /\ u \in DOMAIN workUnitIndex[sid]
UnitOf(sid, u) == sessions[sid].work_units[workUnitIndex[sid][u]]

\* C1: of two claims of an available unit by two different workers, made one
\* after the other in either order, the first returns true and the second
\* false, and the unit's claimed_by is the first worker afterwards.
C1_ClaimExclusive ==
    [][\A sid \in DOMAIN sessions, u \in UnitIds, w1 \in Workers, w2 \in Workers :
         w1 # w2 =>
           /\ (HasUnit(sid, u) /\ UnitOf(sid, u).status = "available"
                 /\ claimWorkUnit(sid, u, w1, 1))
              => /\ lastOp' = Op("claimWorkUnit", sid, u, w1, TRUE, "true")
                 /\ UnitOf(sid, u)'.status = "claimed"
                 /\ UnitOf(sid, u)'.claimed_by = w1
           /\ (lastOp = Op("claimWorkUnit", sid, u, w1, TRUE, "true")
                 /\ claimWorkUnit(sid, u, w2, 1))
              => /\ lastOp' = Op("claimWorkUnit", sid, u, w2, FALSE, "false")
                 /\ UnitOf(sid, u)'.claimed_by = w1]_vars

\* A second worker's claim has just failed on a unit another worker holds
C1_Witness ==
    /\ lastOp.op = "claimWorkUnit"
    /\ ~lastOp.ok
    /\ HasUnit(lastOp.sid, lastOp.arg)
    /\ UnitOf(lastOp.sid, lastOp.arg).status = "claimed"
    /\ UnitOf(lastOp.sid, lastOp.arg).claimed_by \notin {"none", lastOp.who}

\* The dependency relation of a list of units: an edge from the id of each
\* unit to every id in its dependencies
DependencyEdges(units) ==
    UNION {{<<units[i].unit_id, d>> : d \in Range(units[i].dependencies)} : i \in DOMAIN units}

RECURSIVE Closure(_, _)
Closure(R, k) ==
    IF k = 0 THEN R
    ELSE Closure(R \cup {<<p[1][1], p[2][2]>> : p \in {q \in R \X R : q[1][2] = q[2][1]}}, k - 1)

HasDependencyCycle(units) ==
    \E n \in UnitIds : <<n, n>> \in Closure(DependencyEdges(units), Cardinality(UnitIds))

\* C2: a publish whose batch, together with the units the session holds,
\* contains a dependency cycle fails with an error and adds nothing to the
\* session's work-unit list and index.
C2_CycleRejectionAtomic ==
    [][\A sid \in DOMAIN sessions, batch \in Batches :
         (publishWorkUnits(sid, batch)
            /\ HasDependencyCycle(sessions[sid].work_units
                                    \o [i \in 1..Len(batch) |-> NewUnit(batch[i], now)]))
         => /\ lastOp'.ret = "error"
            /\ sessions'[sid].work_units = sessions[sid].work_units
            /\ workUnitIndex'[sid] = workUnitIndex[sid]]_vars

\* C3: the dependency relation over the units of every session's list has no
\* cycle.
C3_Acyclic ==
    \A sid \in DOMAIN sessions : ~HasDependencyCycle(sessions[sid].work_units)

\* C9: a session created with ttl = 0 is gone after the next getSession of
\* it or the next reaper sweep (once any time has passed since its creation).
C9_TtlZeroExpires ==
    \A sid \in DOMAIN ttlArg :
        (/\ ttlArg[sid] = 0
         /\ \/ lastOp.op = "reaper"
            \/ lastOp.op = "getSession" /\ lastOp.sid = sid)
        => \/ sid \notin DOMAIN sessions
           \/ sessions[sid].created_at = now

\* C10: getSession of a session with a positive ttl returns the record and
\* changes nothing while now - created_at <= ttl; past that it returns null,
\* removes the session and everything keyed by it, and active drops by one.
C10_LazyExpiry ==
    [][\A sid \in DOMAIN sessions :
         (sessions[sid].ttl > 0 /\ getSession(sid))
         => IF now - sessions[sid].created_at <= sessions[sid].ttl
            THEN /\ lastOp'.ret = "session"
                 /\ sessions' = sessions
                 /\ StatsActive' = StatsActive
            ELSE /\ lastOp'.ret = "null"
                 /\ sid \notin DOMAIN sessions'
                 /\ sid \notin DOMAIN discoveries' \cup DOMAIN outputs'
                 /\ sid \notin DOMAIN dependencyWaiters' \cup DOMAIN workUnitIndex'
                 /\ StatsActive' = StatsActive - 1]_vars

\* A read has just torn down a session created with a positive ttl, while
\* another session is still live
C10_Witness ==
    /\ lastOp.op = "getSession"
    /\ lastOp.arg = "expired"
    /\ ttlArg[lastOp.sid] > 0
    /\ lastOp.sid \notin DOMAIN sessions
    /\ StatsActive = 1

\* The callers suspended in awaitDependency on a key of a session
Suspended(sid, key) ==
    {c \in DOMAIN callers :
        callers[c].state = "pending" /\ callers[c].sid = sid /\ callers[c].key = key}

\* The callers whose resolve function is registered under some resolver key
Registered == UNION {Range(dependencyResolvers[rk]) : rk \in DOMAIN dependencyResolvers}

\* C4: a successful publishOutput of a declared, not yet published key
\* resolves every caller suspended on that key of that session with the
\* published data, none of them is rejected, and no resolver of the key
\* stays registered.
C4_BroadcastWake ==
    [][\A sid \in DOMAIN sessions, key \in Keys, d \in Data :
         (/\ sid \in DOMAIN outputs
          /\ key \in DOMAIN outputs[sid]
          /\ outputs[sid][key].version = 0
          /\ publishOutput(sid, key, d))
         => /\ \A c \in Suspended(sid, key) :
                  /\ callers'[c].state = "resolved"
                  /\ callers'[c].value = d
                  /\ callers'[c].rejectCalls = 0
                  /\ callers'[c].timer = "cleared"
            /\ ResolverKey(sid, key) \notin DOMAIN dependencyResolvers'
            /\ Suspended(sid, key)' = {}]_vars

\* One publish has just resolved two callers with the same data
C4_Witness ==
    /\ lastOp.op = "publishOutput"
    /\ lastOp.ok
    /\ Cardinality({c \in DOMAIN callers :
           /\ callers[c].state = "resolved"
           /\ callers[c].sid = lastOp.sid
           /\ callers[c].key = lastOp.arg
           /\ callers[c].value = lastOp.ret}) >= 2

\* C5: no caller is settled more than once: resolve and reject are called at
\* most once between them for each caller, a resolved caller was never
\* rejected and a rejected caller was never resolved.
C5_OneResolution ==
    \A c \in DOMAIN callers :
        /\ callers[c].resolveCalls + callers[c].rejectCalls <= 1
        /\ callers[c].state = "pending"
              => callers[c].resolveCalls = 0 /\ callers[c].rejectCalls = 0
        /\ callers[c].state = "resolved"
              => callers[c].resolveCalls = 1 /\ callers[c].timer = "cleared"
        /\ callers[c].state = "rejected"
              => callers[c].rejectCalls = 1 /\ callers[c].timer = "fired"

\* A publish has just succeeded for the key of a caller that timed out
\* before, while another caller was resolved by a publish
C5_Witness ==
    /\ lastOp.op = "publishOutput"
    /\ lastOp.ok
    /\ \E c \in DOMAIN callers :
          /\ callers[c].state = "rejected"
          /\ callers[c].sid = lastOp.sid
          /\ callers[c].key = lastOp.arg
    /\ \E c \in DOMAIN callers : callers[c].state = "resolved"

\* C6: a caller that suspended on a live session is settled once that session
\* has been torn down.
C6_TeardownSettlesWaiters ==
    \A c \in DOMAIN callers :
        (callers[c].live /\ callers[c].sid \notin DOMAIN sessions)
        => callers[c].state # "pending"

\* A caller is rejected only by its own timer and not before its deadline;
\* right after, it holds the timeout error and its resolver is no longer
\* registered, and nothing that happens later changes a rejected caller.
TimeoutOnlyWhenDue ==
    [][\A c \in DOMAIN callers :
         /\ (callers[c].state = "pending" /\ callers'[c].state = "rejected")
            => /\ now >= callers[c].due
               /\ callers[c].timer = "armed"
               /\ callers'[c].value = "timeout"
               /\ c \notin Registered'
               /\ lastOp'.op = "timeout"
         /\ callers[c].state = "rejected" => callers'[c] = callers[c]]_vars

\* C7: a caller suspended in awaitDependency whose key is not published
\* eventually fails with the timeout error (a caller that is resolved
\* instead had its key published).
C7_TimeoutFires ==
    \A c \in 1..MaxCallers :
        (c \in DOMAIN callers /\ callers[c].state = "pending")
        ~> (c \in DOMAIN callers
              /\ \/ callers[c].state = "rejected" /\ callers[c].value = "timeout"
                 \/ callers[c].state = "resolved")

\* Caller c is suspended and its session has not been torn down
WaitingLive(c) ==
    /\ c \in DOMAIN callers
    /\ callers[c].state = "pending"
    /\ callers[c].sid \in DOMAIN sessions

\* C8: while its session stays live, a suspended caller is eventually
\* settled; a caller is resolved only by a publish of its key, with the data
\* published, and rejected only by its timer.
C8_WaiterLiveness ==
    /\ \A c \in 1..MaxCallers : WaitingLive(c) ~> ~WaitingLive(c)
    /\ [][\A c \in DOMAIN callers :
            /\ (callers[c].state = "pending" /\ callers'[c].state = "resolved")
               => /\ lastOp' = Op("publishOutput", callers[c].sid, callers[c].key,
                                  "", TRUE, callers'[c].value)
                  /\ outputs'[callers[c].sid][callers[c].key].data = callers'[c].value
                  /\ callers[c].timer = "armed"
            /\ (callers[c].state = "pending" /\ callers'[c].state = "rejected")
               => lastOp'.op = "timeout" /\ now >= callers[c].due]_vars

\* One caller was resolved by a publish and another rejected by its timer,
\* on a session that is still live
C8_Witness ==
    /\ \E c \in DOMAIN callers :
          callers[c].state = "resolved" /\ callers[c].sid \in DOMAIN sessions
    /\ \E c \in DOMAIN callers :
          callers[c].state = "rejected" /\ callers[c].sid \in DOMAIN sessions

\* The ttl held by the session record has elapsed
TtlElapsed(sid) ==
    /\ sid \in DOMAIN sessions
    /\ sessions[sid].ttl > 0
    /\ now - sessions[sid].created_at > sessions[sid].ttl

\* C11: with the sweep firing again and again, a session whose ttl has
\* elapsed is eventually torn down; a sweep removes the session record, the
\* discovery log, the output map, the wait requests and the work-unit index
\* of every session whose ttl has elapsed, and leaves every other session
\* as it was.
C11_ReaperLiveness ==
    /\ \A n \in 1..MaxSessions :
          TtlElapsed(SessionId(n)) ~> (SessionId(n) \notin DOMAIN sessions)
    /\ [][cleanupTimerFire =>
            \A sid \in DOMAIN sessions :
               IF TtlElapsed(sid)
               THEN /\ sid \notin DOMAIN sessions'
                    /\ sid \notin DOMAIN discoveries'
                    /\ sid \notin DOMAIN outputs'
                    /\ sid \notin DOMAIN dependencyWaiters'
                    /\ sid \notin DOMAIN workUnitIndex'
               ELSE /\ sid \in DOMAIN sessions'
                    /\ sessions'[sid] = sessions[sid]
                    /\ sessions[sid].shared_context.full_context_key \in DOMAIN contexts']_vars

\* A sweep has just torn down a session and left another one alive
C11_Witness ==
    /\ lastOp.op = "reaper"
    /\ Len(lastOp.arg) >= 1
    /\ \A i \in 1..Len(lastOp.arg) : lastOp.arg[i] \notin DOMAIN sessions
    /\ DOMAIN sessions # {}

\* The sessions a step tears down
TornDown == {sid \in DOMAIN sessions : sid \notin DOMAIN sessions'}

\* C12: right after a session is torn down the store holds, for its id, no
\* session record, no discovery log, no output map, no wait requests, no
\* resolver list and no work-unit index; none of its callers has a resolver
\* registered or a timer armed; and no reference count names the session.
C12_TeardownCascade ==
    [][\A sid \in TornDown :
         /\ sid \notin DOMAIN discoveries'
         /\ sid \notin DOMAIN outputs'
         /\ sid \notin DOMAIN dependencyWaiters'
         /\ sid \notin DOMAIN workUnitIndex'
         /\ \A key \in Keys : ResolverKey(sid, key) \notin DOMAIN dependencyResolvers'
         /\ \A c \in DOMAIN callers' :
               callers'[c].sid = sid
               => callers'[c].timer # "armed" /\ c \notin Registered'
         /\ \A ck \in DOMAIN contextRefCount' : sid \notin contextRefCount'[ck]]_vars

\* A session that held a discovery, a work unit, a declared output and a
\* suspended caller has just been torn down
C12_Witness ==
    /\ \/ lastOp.op = "getSession" /\ lastOp.arg = "expired"
       \/ lastOp.op = "reaper" /\ lastOp.arg # <<>>
    /\ sessions = <<>>
    /\ nextDid > 1
    /\ \E c \in DOMAIN callers : callers[c].live /\ callers[c].timer = "cleared"
    /\ discoveries = <<>> /\ dependencyWaiters = <<>> /\ dependencyResolvers = <<>>

\* C13: right after a session is torn down, expandContextSection with the
\* session's reference id returns null for every section name, and
\* getSessionStats().total_contexts has dropped by one for each session torn
\* down.
C13_ReferenceCounting ==
    [][/\ \A sid \in TornDown :
             \A refId \in {sessions[sid].shared_context.ref_id}, section \in Sections :
                ExpandedSection(refId, section)' = "null"
       /\ TornDown # {}
             => StatsTotalContexts' = StatsTotalContexts - Cardinality(TornDown)]_vars

\* A section of a torn-down session's blob has just been asked for and was
\* not found, while another session still holds its blob
C13_Witness ==
    /\ lastOp.op = "expandContextSection"
    /\ lastOp.arg = "requirements"
    /\ lastOp.ret = "null"
    /\ \E n \in 1..(nextSid - 1) :
          SessionId(n) \notin DOMAIN sessions /\ lastOp.who = <<"ref", n>>
    /\ StatsTotalContexts = 1

\* C14: the stored blobs are exactly the blobs of the live sessions: each
\* live session's reference resolves to a stored blob, each blob, reference
\* record and reference count belongs to a live session, and each reference
\* count is non-empty and names live sessions only.
C14_NoLeakNoDangling ==
    /\ DOMAIN contexts =
          {sessions[sid].shared_context.full_context_key : sid \in DOMAIN sessions}
    /\ DOMAIN contextRefs =
          {sessions[sid].shared_context.ref_id : sid \in DOMAIN sessions}
    /\ DOMAIN contextRefCount = DOMAIN contexts
    /\ \A sid \in DOMAIN sessions :
          /\ getFullContext(sessions[sid].shared_context.ref_id) # "null"
          /\ sid \in contextRefCount[sessions[sid].shared_context.full_context_key]
    /\ \A ck \in DOMAIN contextRefCount :
          contextRefCount[ck] # {} /\ contextRefCount[ck] \subseteq DOMAIN sessions

\* Two sessions were created, one has been torn down and the other one's
\* blob is the only one stored
C14_Witness ==
    /\ nextSid = 3
    /\ Cardinality(DOMAIN sessions) = 1
    /\ Cardinality(DOMAIN contexts) = 1
    /\ Cardinality(DOMAIN contextRefCount) = 1

\* C15: the discoveries of a session carry strictly increasing versions in
\* the order they were appended, so no two of them carry the same version.
C15_VersionsMonotonic ==
    \A sid \in DOMAIN discoveries :
        \A i \in DOMAIN discoveries[sid], j \in DOMAIN discoveries[sid] :
            i < j => discoveries[sid][i].version < discoveries[sid][j].version

\* C16: a session's log never holds more discoveries than the cap; an append
\* leaves the new discovery last in the log, in front of it a suffix of the
\* log as it was.
C16_BoundedLog ==
    [][\A sid \in DOMAIN discoveries' :
         /\ Len(discoveries'[sid]) <= maxDiscoveriesPerSession
         /\ (nextDid' = nextDid + 1 /\ lastOp'.sid = sid)
            => LET before == GetOr(discoveries, sid, <<>>)
                   after == discoveries'[sid]
               IN /\ after # <<>>
                  /\ after[Len(after)].discovery_id = nextDid
                  /\ \E k \in 0..Len(before) :
                        SubSeq(after, 1, Len(after) - 1) = Drop(before, k)]_vars

\* An append has just evicted the oldest discovery of a full log
C16_Witness ==
    /\ lastOp.op = "appendDiscovery"
    /\ Len(discoveries[lastOp.sid]) = maxDiscoveriesPerSession
    /\ discoveries[lastOp.sid][1].discovery_id > 1
    /\ discoveries[lastOp.sid][Len(discoveries[lastOp.sid])].discovery_id = lastOp.ret

\* C17: while no discovery has been evicted, the polling worker has received
\* no discovery twice, and right after a poll it has received every
\* discovery appended so far.
C17_DeltaLosesNothing ==
    nextDid - 1 <= maxDiscoveriesPerSession
    => /\ \A i \in DOMAIN polled.got, j \in DOMAIN polled.got :
             i # j => polled.got[i] # polled.got[j]
       /\ (lastOp.op = "getContextDelta" /\ lastOp.ok)
          => Range(polled.got) = 1..(nextDid - 1)

\* C18: getDiscoveriesSince(t) returns the retained discoveries with a
\* timestamp greater than t, each once and in append order; what it returns
\* for t is among what it returns for t - 1.
C18_SinceTimestamp ==
    \A sid \in DOMAIN discoveries, t \in 0..(MaxTime + 1) :
        LET log == discoveries[sid]
            since == DiscoveriesSince(sid, t)
        IN /\ Range(since) = {d \in Range(log) : d.timestamp > t}
           /\ \A i \in DOMAIN since, j \in DOMAIN since :
                 i < j => since[i].discovery_id < since[j].discovery_id
           /\ Range(since) \subseteq Range(DiscoveriesSince(sid, t - 1))

\* getDiscoveriesSince has just returned some of the retained discoveries
\* and left out one whose timestamp equals the argument
C18_Witness ==
    /\ lastOp.op = "getDiscoveriesSince"
    /\ lastOp.ret # <<>>
    /\ \E d \in Range(discoveries[lastOp.sid]) :
          d.timestamp = lastOp.arg /\ d \notin Range(lastOp.ret)

\* C19: once a key of a live session has been published, awaitDependency on
\* it returns the data published last at once: no wait request, resolver or
\* caller record is added.
C19_DurableLastValue ==
    [][\A sid \in DOMAIN sessions, key \in Keys, t \in 1..MaxTimeout :
         (/\ OwnOutput(sid, key)
          /\ outputs[sid][key].version >= 1
          /\ awaitDependency(sid, key, t))
         => /\ lastOp'.ret = outputs[sid][key].data
            /\ callers' = callers
            /\ dependencyWaiters' = dependencyWaiters
            /\ dependencyResolvers' = dependencyResolvers]_vars

\* C20: publishOutput for a key the session has no output entry for, or for
\* a session the store has no outputs of, returns false, leaves every output
\* map as it was and settles no caller.
C20_UndeclaredPublishFails ==
    [][\A sid \in KnownSids, key \in Keys \cup InheritedKeys, d \in Data :
         (~OwnOutput(sid, key) /\ publishOutput(sid, key, d))
         => /\ lastOp' = Op("publishOutput", sid, key, "", FALSE, "false")
            /\ outputs' = outputs
            /\ callers' = callers
            /\ dependencyResolvers' = dependencyResolvers]_vars

\* The same for the keys that are not names of Object.prototype
UndeclaredPlainKeyFails ==
    [][\A sid \in KnownSids, key \in Keys, d \in Data :
         (~OwnOutput(sid, key) /\ publishOutput(sid, key, d))
         => /\ lastOp' = Op("publishOutput", sid, key, "", FALSE, "false")
            /\ outputs' = outputs
            /\ callers' = callers
            /\ dependencyResolvers' = dependencyResolvers]_vars

\* C21: a successful declare_outputs creates, for every key of the request
\* that is not yet tracked, a placeholder with null data, version 0 and
\* timestamp 0, and leaves the entry of every key that is already tracked
\* (declared or published, by any member) as it was.
C21_DeclareIdempotent ==
    [][\A sid \in DOMAIN sessions, w \in Workers, keys \in OutputKeyLists :
          (declareOutputs(sid, w, keys) /\ lastOp'.ok) =>
             \A i \in 1..Len(keys) :
                IF OwnOutput(sid, keys[i])
                THEN /\ keys[i] \in DOMAIN outputs'[sid]
                     /\ outputs'[sid][keys[i]] = outputs[sid][keys[i]]
                ELSE /\ keys[i] \in DOMAIN outputs'[sid]
                     /\ outputs'[sid][keys[i]].data = "null"
                     /\ outputs'[sid][keys[i]].version = 0
                     /\ outputs'[sid][keys[i]].timestamp = 0]_vars

\* The half of C21 the code keeps: a declaration never changes an entry that
\* is tracked, and declaring the same keys again, by any actor, gives the
\* same output map
DeclareTwiceSame ==
    [][\A sid \in DOMAIN sessions, w \in Workers, keys \in OutputKeyLists :
          (declareOutputs(sid, w, keys) /\ lastOp'.ok) =>
             /\ \A k \in DOMAIN outputs[sid] :
                   k \in DOMAIN outputs'[sid] /\ outputs'[sid][k] = outputs[sid][k]
             /\ \A w2 \in Workers :
                   DeclareEach(outputs'[sid], keys, 1, w2) = outputs'[sid]]_vars

\* C22: declare_outputs succeeds when the actor is the coordinator of the
\* session or one of its listed workers; for any other actor, and for a
\* session that does not exist, it returns failure and leaves the output map
\* as it was.
C22_DeclareMembership ==
    [][\A sid \in KnownSids, w \in Workers, keys \in OutputKeyLists :
          declareOutputs(sid, w, keys) =>
             IF /\ sid \in DOMAIN sessions
                /\ \/ w = sessions[sid].coordinator_id
                   \/ w \in Range(sessions[sid].worker_ids)
             THEN lastOp'.ok
             ELSE ~lastOp'.ok /\ outputs' = outputs]_vars

\* The half of C22 the code keeps: a listed worker succeeds, an actor that is
\* neither listed nor the coordinator fails, a missing session fails, and a
\* failed declaration changes nothing
DeclareNonMemberFails ==
    [][\A sid \in KnownSids, w \in Workers \ {"coord"}, keys \in OutputKeyLists :
          declareOutputs(sid, w, keys) =>
             IF sid \in DOMAIN sessions /\ w \in Range(sessions[sid].worker_ids)
             THEN lastOp'.ok
             ELSE ~lastOp'.ok /\ outputs' = outputs]_vars

\* C23: await_dependency on a session id that does not exist is reported as
\* not-found and registers no waiter; a timeout is reported only to a caller
\* whose session existed when it called.
C23_TimeoutNotForMissingSession ==
    /\ \A c \in DOMAIN callers : callers[c].live
    /\ lastOp.op = "timeout" => lastOp.sid \in KnownSids \ {UnknownSid}

\* The half of C23 the code keeps: a timeout is reported only once the
\* deadline has passed without a publish to the key the caller waits on
TimeoutAfterDeadline ==
    [][\A c \in DOMAIN callers :
          (callers[c].state = "pending" /\ callers'[c].state = "rejected") =>
             /\ callers'[c].value = "timeout"
             /\ now >= callers[c].due
             /\ callers[c].timer = "armed"]_vars

\* The handlers the specification lists as mutations of a session
Mutations ==
    {"updateSessionStatus", "publishWorkUnits", "claimWorkUnit", "updateWorkStatus",
     "appendDiscovery", "declareOutputs", "publishOutput"}

\* A step in which one of the mutating handlers ran on session sid and
\* reported success (the clock does not move while a handler runs)
MutatedOk(sid) ==
    /\ now' = now
    /\ lastOp'.op \in Mutations
    /\ lastOp'.sid = sid
    /\ lastOp'.ok

\* C24: every successful mutation of a live session sets the session's
\* updated_at to the current time, and updated_at of a session never
\* decreases.
C24_MutationBumpsUpdatedAt ==
    [][\A sid \in DOMAIN sessions :
          sid \in DOMAIN sessions' =>
             /\ sessions'[sid].updated_at >= sessions[sid].updated_at
             /\ MutatedOk(sid) => sessions'[sid].updated_at = now]_vars

\* The half of C24 the code keeps: updated_at never decreases and never runs
\* ahead of the clock
UpdatedAtMonotonic ==
    [][\A sid \in DOMAIN sessions :
          sid \in DOMAIN sessions' =>
             /\ sessions'[sid].updated_at >= sessions[sid].updated_at
             /\ sessions'[sid].updated_at <= now']_vars

\* C25: once the TTL of a session has elapsed (now - created_at > ttl), no
\* mutating handler succeeds on it, torn down yet or not: the call reports
\* failure and changes neither the session record nor its outputs.
C25_TtlEnforcedOnMutations ==
    [][\A sid \in DOMAIN sessions :
          (now' = now /\ lastOp'.op \in Mutations /\ lastOp'.sid = sid
             /\ now - sessions[sid].created_at > sessions[sid].ttl) =>
             /\ ~lastOp'.ok
             /\ sessions' = sessions
             /\ outputs' = outputs]_vars

\* C26: claim_work_unit on a missing session, a missing unit, or a unit whose
\* status is not available returns false and leaves every session record
\* (the unit's status, claimed_by, estimated_duration and updated_at, the
\* session's updated_at) and the work-unit index exactly as they were.
C26_FailedClaimChangesNothing ==
    [][\A sid \in KnownSids, u \in UnitIds, w \in Workers :
          (/\ claimWorkUnit(sid, u, w, 1)
           /\ \/ sid \notin DOMAIN sessions
              \/ ~HasUnit(sid, u)
              \/ UnitOf(sid, u).status # "available")
          => /\ lastOp' = Op("claimWorkUnit", sid, u, w, FALSE, "false")
             /\ sessions' = sessions
             /\ workUnitIndex' = workUnitIndex]_vars

\* A claim has just failed on a unit that is in progress, completed or
\* blocked, and the unit still carries the status it had
C26_Witness ==
    /\ lastOp.op = "claimWorkUnit"
    /\ ~lastOp.ok
    /\ HasUnit(lastOp.sid, lastOp.arg)
    /\ UnitOf(lastOp.sid, lastOp.arg).status \in {"in_progress", "completed", "blocked"}

\* C27: update_work_status on an existing unit of an existing session
\* succeeds for every target status and from every current status, sets the
\* unit's status to the given value and attaches a result only when one is
\* provided; on a missing session or a missing unit it returns false and
\* changes no state.
C27_StatusUpdateUnguarded ==
    [][\A sid \in KnownSids, u \in UnitIds, status \in UnitStatuses, r \in BOOLEAN :
          updateWorkStatus(sid, u, status, r) =>
             IF HasUnit(sid, u)
             THEN /\ lastOp' = Op("updateWorkStatus", sid, u, status, TRUE, "true")
                  /\ UnitOf(sid, u)'.status = status
                  /\ UnitOf(sid, u)'.has_result = (r \/ UnitOf(sid, u).has_result)
             ELSE /\ lastOp' = Op("updateWorkStatus", sid, u, status, FALSE, "false")
                  /\ sessions' = sessions
                  /\ workUnitIndex' = workUnitIndex]_vars

\* A unit that was started and completed has just been put back to
\* available, with no result ever attached
C27_Witness ==
    /\ lastOp.op = "updateWorkStatus"
    /\ lastOp.ok
    /\ lastOp.who = "available"
    /\ HasUnit(lastOp.sid, lastOp.arg)
    /\ UnitOf(lastOp.sid, lastOp.arg).status = "available"
    /\ UnitOf(lastOp.sid, lastOp.arg).actual_duration # UNDEF
    /\ ~UnitOf(lastOp.sid, lastOp.arg).has_result

\* C28: a unit's started_at is set by the first update_work_status to
\* in_progress, to the time of that call, and no later operation changes it;
\* a transition to completed sets actual_duration to the time from started_at
\* to the completion, in whole seconds, if started_at was recorded; a unit
\* that was never in progress has no actual_duration.
C28_StartRecordedOnce ==
    [][\A sid \in DOMAIN sessions :
          \A p \in 1..Len(sessions[sid].work_units) :
             LET unit == sessions[sid].work_units[p]
                 after == sessions'[sid].work_units[p]
                 elapsed == now - unit.started_at
             IN /\ unit.started_at = UNDEF => unit.actual_duration = UNDEF
                /\ sid \in DOMAIN sessions'
                /\ unit.started_at # UNDEF => after.started_at = unit.started_at
                /\ \A status \in UnitStatuses, r \in BOOLEAN :
                      (updateWorkStatus(sid, unit.unit_id, status, r)
                         /\ IndexedUnit(sid, unit.unit_id) = p) =>
                         /\ (unit.started_at = UNDEF) =>
                               after.started_at = IF status = "in_progress" THEN now ELSE UNDEF
                         /\ after.actual_duration =
                               IF status = "completed" /\ unit.started_at # UNDEF
                               THEN (elapsed + 500) \div 1000
                               ELSE IF status = "completed" THEN UNDEF
                               ELSE unit.actual_duration]_vars

\* A unit started at one time, completed more than half a second later and
\* then put in progress again at a still later time: it keeps its first start
\* time and the duration of one second measured from it
C28_Witness ==
    /\ lastOp.op = "updateWorkStatus"
    /\ lastOp.ok
    /\ lastOp.who = "in_progress"
    /\ HasUnit(lastOp.sid, lastOp.arg)
    /\ UnitOf(lastOp.sid, lastOp.arg).started_at # UNDEF
    /\ UnitOf(lastOp.sid, lastOp.arg).started_at < UnitOf(lastOp.sid, lastOp.arg).updated_at
    /\ UnitOf(lastOp.sid, lastOp.arg).actual_duration = 1

\* C29: in every reachable state the unit ids in a session's work-unit list
\* are pairwise distinct, and the work-unit index of the session maps exactly
\* the ids in the list, each to the unit the list holds under that id.
C29_UnitIdsUnique ==
    \A sid \in DOMAIN sessions :
       LET units == sessions[sid].work_units
       IN /\ \A i, j \in 1..Len(units) : units[i].unit_id = units[j].unit_id => i = j
          /\ sid \in DOMAIN workUnitIndex
          /\ DOMAIN workUnitIndex[sid] = {units[i].unit_id : i \in 1..Len(units)}
          /\ \A u \in DOMAIN workUnitIndex[sid] :
                /\ workUnitIndex[sid][u] \in 1..Len(units)
                /\ units[workUnitIndex[sid][u]].unit_id = u

\* The half of C29 the code keeps: the index maps exactly the ids in the
\* list, each to a unit of the list that carries the id (the one published
\* last)
IndexMatchesLastPublished ==
    \A sid \in DOMAIN sessions :
       LET units == sessions[sid].work_units
       IN /\ sid \in DOMAIN workUnitIndex
          /\ DOMAIN workUnitIndex[sid] = {units[i].unit_id : i \in 1..Len(units)}
          /\ \A u \in DOMAIN workUnitIndex[sid] :
                /\ workUnitIndex[sid][u] \in 1..Len(units)
                /\ units[workUnitIndex[sid][u]].unit_id = u
                /\ \A i \in 1..Len(units) :
                      units[i].unit_id = u => i <= workUnitIndex[sid][u]

\* C30: every successful publish_output acts on a tracked key and increases
\* its version by exactly 1, nothing else changes a version, and a tracked
\* key has version 0 exactly while it holds the placeholder of its
\* declaration (null data, timestamp 0); so the version of a tracked key is
\* the number of successful publishes of it.
C30_VersionCountsPublishes ==
    [][/\ \A sid \in DOMAIN outputs : \A key \in DOMAIN outputs[sid] :
             /\ outputs[sid][key].version >= 0
             /\ outputs[sid][key].version = 0 <=>
                   (outputs[sid][key].data = "null" /\ outputs[sid][key].timestamp = 0)
       /\ \A sid \in KnownSids, key \in Keys \cup InheritedKeys :
             IF \E d \in Data : publishOutput(sid, key, d) /\ lastOp'.ok
             THEN /\ OwnOutput(sid, key)
                  /\ outputs'[sid][key].version = outputs[sid][key].version + 1
             ELSE OwnOutput(sid, key) =>
                     /\ sid \in DOMAIN outputs'
                     /\ key \in DOMAIN outputs'[sid]
                     /\ outputs'[sid][key].version = outputs[sid][key].version]_vars

\* The half of C30 the code keeps, for keys that are not names the outputs
\* record inherits: a placeholder has version 0, each successful publish adds
\* exactly 1, and nothing else changes a version
PlainKeyVersionCounts ==
    [][/\ \A sid \in DOMAIN outputs : \A key \in DOMAIN outputs[sid] \cap Keys :
             /\ outputs[sid][key].version >= 0
             /\ outputs[sid][key].version = 0 <=>
                   (outputs[sid][key].data = "null" /\ outputs[sid][key].timestamp = 0)
       /\ \A sid \in KnownSids, key \in Keys :
             IF \E d \in Data : publishOutput(sid, key, d) /\ lastOp'.ok
             THEN /\ OwnOutput(sid, key)
                  /\ outputs'[sid][key].version = outputs[sid][key].version + 1
             ELSE OwnOutput(sid, key) =>
                     /\ sid \in DOMAIN outputs'
                     /\ key \in DOMAIN outputs'[sid]
                     /\ outputs'[sid][key].version = outputs[sid][key].version]_vars

\* C31: through the publish_work_units front end a session never holds more
\* than maxWorkUnitsPerSession work units.
C31_WorkUnitCap ==
    \A sid \in DOMAIN sessions :
       Len(sessions[sid].work_units) <= maxWorkUnitsPerSession

\* The half of C31 the code keeps: a request whose own array is longer than
\* the cap is rejected with a validation error and adds nothing
OversizeBatchRejected ==
    [][\A sid \in KnownSids, workUnits \in RequestBatches :
          (publish_work_units(sid, workUnits)
             /\ Len(workUnits) > maxWorkUnitsPerSession) =>
             /\ ~lastOp'.ok
             /\ lastOp'.op = "publish_work_units"
             /\ sessions' = sessions
             /\ workUnitIndex' = workUnitIndex]_vars

\* C32: a claim_work_unit or add_discovery request on a live session whose
\* worker_id is neither the session's coordinator nor one of its listed
\* workers fails with an error and leaves the session's work units and its
\* discovery log unchanged.
C32_MembershipChecked ==
    [][\A sid \in DOMAIN sessions, w \in Workers :
          (/\ now - sessions[sid].created_at <= sessions[sid].ttl
           /\ w # sessions[sid].coordinator_id
           /\ w \notin Range(sessions[sid].worker_ids)
           /\ \/ \E u \in UnitIds : claim_work_unit(sid, u, w, 1)
              \/ add_discovery(sid, w))
          => /\ ~lastOp'.ok
             /\ lastOp'.ret = "Worker is not part of session"
             /\ sessions' = sessions
             /\ workUnitIndex' = workUnitIndex
             /\ discoveries' = discoveries]_vars

\* A worker that is not listed has just been refused the claim of a unit
\* that is available, in a session that already holds a discovery
C32_Witness ==
    /\ lastOp.op = "claim_work_unit"
    /\ ~lastOp.ok
    /\ lastOp.ret = "Worker is not part of session"
    /\ HasUnit(lastOp.sid, lastOp.arg)
    /\ UnitOf(lastOp.sid, lastOp.arg).status = "available"
    /\ lastOp.sid \in DOMAIN discoveries
    /\ Len(discoveries[lastOp.sid]) > 0

\* The callers suspended on any key of a session
SuspendedOn(sid) ==
    {c \in DOMAIN callers : callers[c].state = "pending" /\ callers[c].sid = sid}

\* The number of wait requests a session holds for a key
WaitRecords(sid, key) ==
    Cardinality({i \in 1..Len(GetOr(dependencyWaiters, sid, <<>>)) :
                    dependencyWaiters[sid][i].dependency_key = key})

\* C33: in every reachable state the wait requests held for a session
\* correspond one-to-one to the callers suspended on that session: for every
\* key, as many requests as suspended callers.
C33_WaitRecordsTrackCallers ==
    \A sid \in KnownSids, key \in Keys :
       WaitRecords(sid, key) = Cardinality(Suspended(sid, key))

\* The half of C33 the code keeps: a caller that suspends adds exactly one
\* request, for its key, at the end of the session's list
SuspendAddsRecord ==
    [][\A sid \in KnownSids, key \in Keys, t \in 1..MaxTimeout :
          (awaitDependency(sid, key, t) /\ ~Available(sid, key)) =>
             /\ Len(dependencyWaiters'[sid]) = Len(GetOr(dependencyWaiters, sid, <<>>)) + 1
             /\ dependencyWaiters'[sid][Len(dependencyWaiters'[sid])].dependency_key = key
             /\ Cardinality(SuspendedOn(sid)') = Cardinality(SuspendedOn(sid)) + 1]_vars

\* C34: in every reachable state a wait timer is armed if and only if its
\* caller is still suspended with a resolver registered, and no timer fires
\* for a caller that is already settled or whose session is already torn
\* down.
C34_NoTimerOutlivesWaiter ==
    [][\A c \in DOMAIN callers :
          /\ callers[c].timer = "armed" <=>
                (callers[c].state = "pending" /\ c \in Registered)
          /\ timeoutFire(c) =>
                /\ callers[c].state = "pending"
                /\ callers[c].sid \in DOMAIN sessions]_vars

\* The half of C34 the code keeps: a timer is armed exactly while its caller
\* is suspended with a resolver registered, a publish and a teardown leave no
\* timer of the callers they reach armed, and the timer of a caller that
\* suspended while its session existed never fires after the teardown
TimersFollowWaiters ==
    [][\A c \in DOMAIN callers :
          /\ callers[c].timer = "armed" <=>
                (callers[c].state = "pending" /\ c \in Registered)
          /\ (callers[c].sid \in TornDown \/ callers'[c].state = "resolved")
                => callers'[c].timer # "armed"
          /\ (timeoutFire(c) /\ callers[c].live) =>
                /\ callers[c].state = "pending"
                /\ callers[c].sid \in DOMAIN sessions]_vars

ResolverSession(rk) == SubSeq(rk, 1, 2)

\* C36: in every reachable state every key of the discovery log map, the
\* output map, the wait-request map, the work-unit index and the resolver map
\* belongs to a session that is in the session registry.
C36_StateOnlyForLiveSessions ==
    /\ DOMAIN discoveries \subseteq DOMAIN sessions
    /\ DOMAIN outputs \subseteq DOMAIN sessions
    /\ DOMAIN dependencyWaiters \subseteq DOMAIN sessions
    /\ DOMAIN workUnitIndex \subseteq DOMAIN sessions
    /\ \A rk \in DOMAIN dependencyResolvers : ResolverSession(rk) \in DOMAIN sessions

\* The half of C36 the code keeps: the maps a request cannot write without a
\* session (outputs of plain keys, the work-unit index) hold entries of live
\* sessions only, and a teardown leaves no entry of the session in any map
OwnedMapsOnlyForLiveSessions ==
    /\ DOMAIN outputs \subseteq DOMAIN sessions
    /\ DOMAIN workUnitIndex \subseteq DOMAIN sessions
    /\ (lastOp.op = "getSession" /\ lastOp.arg = "expired") =>
          /\ lastOp.sid \notin DOMAIN discoveries
          /\ lastOp.sid \notin DOMAIN dependencyWaiters
          /\ \A rk \in DOMAIN dependencyResolvers : ResolverSession(rk) # lastOp.sid

\* C37: once a work unit has been claimed by a worker, no later operation on
\* the session makes its claimed_by differ from that worker.
C37_ClaimantStable ==
    [][\A sid \in DOMAIN sessions :
          sid \in DOMAIN sessions' =>
             \A p \in 1..Len(sessions[sid].work_units) :
                sessions[sid].work_units[p].claimed_by # "none" =>
                   sessions'[sid].work_units[p].claimed_by
                      = sessions[sid].work_units[p].claimed_by]_vars

\* The half of C37 the code keeps: claimed_by is written only by a successful
\* claim, of a unit that is available, and no status update or publish
\* changes it
ClaimedByOnlyByClaim ==
    [][\A sid \in DOMAIN sessions :
          sid \in DOMAIN sessions' =>
             \A p \in 1..Len(sessions[sid].work_units) :
                sessions'[sid].work_units[p].claimed_by
                      # sessions[sid].work_units[p].claimed_by =>
                   /\ lastOp'.op = "claimWorkUnit"
                   /\ lastOp'.ok
                   /\ sessions[sid].work_units[p].status = "available"
                   /\ sessions'[sid].work_units[p].claimed_by = lastOp'.who]_vars

\* Everything the store holds for a session: its record (with the work
\* units), discovery log, outputs, wait requests, work-unit index, resolver
\* lists, context blob and its references, and its callers
Owned(sid) ==
    [session |-> GetOr(sessions, sid, "none"),
     log |-> GetOr(discoveries, sid, "none"),
     outs |-> GetOr(outputs, sid, "none"),
     waits |-> GetOr(dependencyWaiters, sid, "none"),
     index |-> GetOr(workUnitIndex, sid, "none"),
     resolvers |-> [key \in Keys |->
                      GetOr(dependencyResolvers, sid \o <<":">> \o key, "none")],
     blob |-> IF sid \in DOMAIN sessions
              THEN <<GetOr(contexts, sessions[sid].shared_context.full_context_key, "none"),
                     GetOr(contextRefs, sessions[sid].shared_context.ref_id, "none"),
                     GetOr(contextRefCount, sessions[sid].shared_context.full_context_key, "none")>>
              ELSE "none",
     waiting |-> [c \in {d \in DOMAIN callers : callers[d].sid = sid} |-> callers[c]]]

\* The handlers addressed to one session
Addressed ==
    {"publishWorkUnits", "claimWorkUnit", "updateWorkStatus", "appendDiscovery",
     "declareOutputs", "awaitDependency", "publishOutput", "getSession"}

UnitsWithId(units, id) == {i \in 1..Len(units) : units[i].unit_id = id}

\* Every unit named in the dependencies is in the list and completed
DependenciesCompleted(units, deps) ==
    \A k \in 1..Len(deps) :
       /\ UnitsWithId(units, deps[k]) # {}
       /\ \A i \in UnitsWithId(units, deps[k]) : units[i].status = "completed"

\* C39: claim_work_unit on an available unit succeeds only when every unit
\* listed in its dependencies is completed; otherwise it returns failure and
\* the unit stays available.
C39_DependenciesGateClaim ==
    [][\A sid \in DOMAIN sessions, u \in UnitIds, w \in Workers :
          (claimWorkUnit(sid, u, w, 1) /\ HasUnit(sid, u)
             /\ UnitOf(sid, u).status = "available"
             /\ ~DependenciesCompleted(sessions[sid].work_units, UnitOf(sid, u).dependencies))
          => /\ ~lastOp'.ok
             /\ UnitOf(sid, u)'.status = "available"]_vars

====
